---- MODULE Spec2Model ----
(***************************************************************************)
(* Engine / trail animation of src/unnamed/part_000 (the time-scaled       *)
(* revision of src/script.js).                                             *)
(*                                                                         *)
(* Numbers.  Every JavaScript number is carried as the IEEE 754 binary64   *)
(* value the program holds, and +, -, *, / and Math.sin are computed bit   *)
(* for bit as the engine computes them (round to nearest, ties to even).   *)
(* The trail buffers are Float32Array: every store into them narrows the   *)
(* number to binary32, which Fround computes, so a trail coordinate is the *)
(* binary32 the code holds (a binary64 with 24 significant bits).  The     *)
(* sign of zero is not kept: no operation of the program tells -0 from 0.  *)
(*                                                                         *)
(* Scene graph objects that only feed the renderer (meshes, crank shafts,  *)
(* car body scale and jitter, camera, lights) carry no simulation state    *)
(* and are not part of the model; the trail lines in the scene are, and    *)
(* so is the set of trail lines whose geometry has been disposed.  A trail *)
(* line is named <<g, i>>: the i-th line created by the g-th build.        *)
(*                                                                         *)
(* History variables (written, never read by the actions): lastDelta is    *)
(* the last value of clock.getDelta(), frame counts the frames, flowSum    *)
(* sums the flow distances (flowSum += flow, a number like any other),     *)
(* lastHandler names the handler that ran last, and history lists, newest  *)
(* first, the flow distance and the piston positions of every frame since  *)
(* the last build, ending with the build.                                  *)
(***************************************************************************)
EXTENDS Integers, Sequences, FiniteSets, TLC

VARIABLES state, pistons, trails, scene, crankAngle, roadOffsetY,
          lastDelta, frame, lineSeq, flowSum, lastHandler, disposed, history

vars == <<state, pistons, trails, scene, crankAngle, roadOffsetY,
          lastDelta, frame, lineSeq, flowSum, lastHandler, disposed, history>>

(***************************************************************************)
(* Bounds of the model.                                                    *)
(***************************************************************************)
MaxFrames == 2
MaxRebuilds == 1

(***************************************************************************)
(* Numbers.  A JavaScript number is an IEEE 754 binary64 value, carried    *)
(* as <<s, e, hi, lo>>: zero is <<0, 0, 0, 0>>, any other number is        *)
(* s * (hi * 2^28 + lo) * 2^e with s = 1 or -1 and the 53-bit significand  *)
(* split in hi (25 bits, 2^24 <= hi < 2^25) and lo (28 bits).  Every       *)
(* operation rounds to nearest, ties to even, as the hardware does.  The   *)
(* steps of an operation are operators that hand their intermediate        *)
(* results on as arguments.                                                *)
(***************************************************************************)
F64Zero == <<0, 0, 0, 0>>

RECURSIVE BitLen(_)
BitLen(n) == IF n = 0 THEN 0 ELSE 1 + BitLen(n \div 2)

\* v with its lowest bit set when bits were lost ("sticky" bit)
Jam(v, lost) == IF lost /\ v % 2 = 0 THEN v + 1 ELSE v

\* a two-limb natural <<h, l>> = h * 2^28 + l shifted right by d bits, the
\* bits shifted out kept as a sticky lowest bit
ShiftRightJam(w, d) ==
    IF d = 0 THEN w
    ELSE IF d < 28 THEN
        <<w[1] \div 2^d,
          Jam((w[2] \div 2^d) + (w[1] % 2^d) * 2^(28 - d), w[2] % 2^d # 0)>>
    ELSE IF d < 57 THEN
        <<0, Jam(w[1] \div 2^(d - 28), w[1] % 2^(d - 28) # 0 \/ w[2] # 0)>>
    ELSE <<0, IF w[1] # 0 \/ w[2] # 0 THEN 1 ELSE 0>>

\* a two-limb natural shifted left by k bits (the result below 2^56)
ShiftLeft(w, k) ==
    IF k = 0 THEN w
    ELSE IF k < 28 THEN
        <<w[1] * 2^k + w[2] \div 2^(28 - k), (w[2] % 2^(28 - k)) * 2^k>>
    ELSE <<w[2] * 2^(k - 28), 0>>

\* the number of significant bits of a two-limb natural
BitLen2(w) == IF w[1] # 0 THEN 28 + BitLen(w[1]) ELSE BitLen(w[2])

\* the significand <<mh, ml>> after rounding, carried into the exponent when
\* it reaches 2^53
PackRounded(s, e, mh, ml) ==
    IF ml < 2^28 THEN <<s, e, mh, ml>>
    ELSE IF mh + 1 = 2^25 THEN <<s, e + 1, 2^24, 0>>
    ELSE <<s, e, mh + 1, 0>>

\* ml, the low limb of a significand, one up when the guard bits g are above
\* a half, or are a half and ml is odd
RoundLow(g, ml) == IF g > 4 \/ (g = 4 /\ ml % 2 = 1) THEN ml + 1 ELSE ml

\* n, 56 bits of which the low three are guard bits, rounded to 53 bits
RoundGuarded(s, e, n) ==
    PackRounded(s, e + 3, n[1] \div 8,
                RoundLow(n[2] % 8, (n[2] \div 8) + (n[1] % 8) * 2^25))

\* w, len bits long, brought to 56 bits and rounded
RoundSized(s, e, w, len) ==
    RoundGuarded(s, e + (len - 56),
                 IF len > 56 THEN ShiftRightJam(w, len - 56) ELSE ShiftLeft(w, 56 - len))

\* the binary64 nearest to s * w * 2^e, w a non-zero two-limb natural whose
\* lowest bit is sticky
RoundPack(s, e, w) == RoundSized(s, e, w, BitLen2(w))

\* the significand with three extra low bits, as a two-limb natural
Wide(x) == <<x[3] * 8 + x[4] \div 2^25, (x[4] % 2^25) * 8>>

\* |x| < |y|, both non-zero
MagLess(x, y) ==
    \/ x[2] < y[2]
    \/ x[2] = y[2] /\ (x[3] < y[3] \/ (x[3] = y[3] /\ x[4] < y[4]))

F64Neg(x) == <<-x[1], x[2], x[3], x[4]>>

\* <<h, l>> with the carry or the borrow of the low limb taken into the high
Carried(h, l) == <<h + l \div 2^28, l % 2^28>>

\* wa + wb or wa - wb (wa >= wb) at exponent e, rounded
AddAligned(s, e, wa, wb, same) ==
    IF same THEN RoundPack(s, e, Carried(wa[1] + wb[1], wa[2] + wb[2]))
    ELSE IF wa = wb THEN F64Zero
    ELSE RoundPack(s, e, Carried(wa[1] - wb[1], wa[2] - wb[2]))

\* a + b for |a| >= |b| > 0: b is shifted to the exponent of a
AddOrdered(a, b) ==
    AddAligned(a[1], a[2] - 3, Wide(a), ShiftRightJam(Wide(b), a[2] - b[2]),
               a[1] = b[1])

\* x + y
F64Add(x, y) ==
    IF x[1] = 0 THEN y
    ELSE IF y[1] = 0 THEN x
    ELSE IF MagLess(x, y) THEN AddOrdered(y, x)
    ELSE AddOrdered(x, y)

\* x - y
F64Sub(x, y) == F64Add(x, F64Neg(y))

\* the significand in four limbs of 14 bits, lowest first
Limbs(x) == <<x[4] % 2^14, x[4] \div 2^14, x[3] % 2^14, x[3] \div 2^14>>

\* the column sums of the product of two four-limb naturals
Columns(a, b) ==
    << a[1] * b[1],
       a[1] * b[2] + a[2] * b[1],
       a[1] * b[3] + a[2] * b[2] + a[3] * b[1],
       a[1] * b[4] + a[2] * b[3] + a[3] * b[2] + a[4] * b[1],
       a[2] * b[4] + a[3] * b[3] + a[4] * b[2],
       a[3] * b[4] + a[4] * b[3],
       a[4] * b[4] >>

\* the digits in base 2^14 of the number with the column sums c, lowest first
RECURSIVE Digits(_, _, _)
Digits(c, k, carry) ==
    IF k > Len(c) THEN <<carry>>
    ELSE <<(c[k] + carry) % 2^14>> \o Digits(c, k + 1, (c[k] + carry) \div 2^14)

\* the 106-bit product <<q2, q1, q0>> (limbs of 28 bits below q2) cut to its
\* top 56 bits by a shift of r, the bits below kept as a sticky bit
MulCut(s, e, q0, q1, q2, lost, r) ==
    RoundPack(s, e + r,
              << q1 \div 2^r + q2 * 2^(28 - r),
                 Jam(q0 \div 2^r + (q1 % 2^r) * 2^(28 - r), lost \/ q0 % 2^r # 0) >>)

\* the product with digits p, rounded
MulDigits(s, e, p) ==
    MulCut(s, e, p[4] + p[5] * 2^14, p[6] + p[7] * 2^14, p[8],
           p[1] # 0 \/ p[2] # 0 \/ p[3] # 0, IF p[8] >= 2^7 THEN 8 ELSE 7)

\* x * y
F64Mul(x, y) ==
    IF x[1] = 0 \/ y[1] = 0 THEN F64Zero
    ELSE MulDigits(x[1] * y[1], x[2] + y[2] + 42,
                   Digits(Columns(Limbs(x), Limbs(y)), 1, 0))

\* r >= m for two-limb naturals
Geq2(r, m) == r[1] > m[1] \/ (r[1] = m[1] /\ r[2] >= m[2])

\* twice the two-limb natural <<h, l>>
Twice(h, l) == <<h * 2 + (l * 2) \div 2^28, (l * 2) % 2^28>>

\* r - m (r >= m), doubled
TwiceRest(r, m) ==
    Twice(r[1] - m[1] - (IF r[2] < m[2] THEN 1 ELSE 0), (r[2] - m[2]) % 2^28)

\* n quotient bits of r / m by long division: <<the bits, the remainder>>
RECURSIVE DivBits(_, _, _, _)
DivBits(r, m, n, q) ==
    IF n = 0 THEN <<q, r>>
    ELSE IF Geq2(r, m) THEN DivBits(TwiceRest(r, m), m, n - 1, q * 2 + 1)
    ELSE DivBits(Twice(r[1], r[2]), m, n - 1, q * 2)

\* the quotient bits of r / m in k + 1 groups of 14, d the first group and its
\* remainder; the last remainder comes last
RECURSIVE DivGroups(_, _, _)
DivGroups(d, m, k) ==
    IF k = 0 THEN d
    ELSE <<d[1]>> \o DivGroups(DivBits(d[2], m, 14, 0), m, k - 1)

\* the quotient with the bit groups g, rounded (a remainder is a sticky bit)
DivPack(s, e, g) ==
    RoundPack(s, e, <<g[1] * 2^14 + g[2], Jam(g[3] * 2^14 + g[4], g[5] # <<0, 0>>)>>)

\* x / y for the significand of x not below that of y (or x doubled), 56
\* quotient bits
DivFrom(s, e, r0, m) == DivPack(s, e, DivGroups(DivBits(r0, m, 14, 0), m, 3))

\* x / y, y not zero
F64Div(x, y) ==
    IF x[1] = 0 THEN F64Zero
    ELSE IF Geq2(<<x[3], x[4]>>, <<y[3], y[4]>>)
    THEN DivFrom(x[1] * y[1], x[2] - y[2] - 55, <<x[3], x[4]>>, <<y[3], y[4]>>)
    ELSE DivFrom(x[1] * y[1], x[2] - y[2] - 56, Twice(x[3], x[4]), <<y[3], y[4]>>)

\* the number of an integer n, |n| < 2^31
F64Int(n) ==
    IF n = 0 THEN F64Zero
    ELSE IF n < 0 THEN RoundPack(-1, 0, <<(-n) \div 2^28, (-n) % 2^28>>)
    ELSE RoundPack(1, 0, <<n \div 2^28, n % 2^28>>)

\* (int) x: x cut to its integer part, |x| < 2^31
F64Trunc(x) ==
    IF x[1] = 0 \/ x[2] <= -53 THEN 0
    ELSE IF x[2] <= -28 THEN x[1] * (x[3] \div 2^(-x[2] - 28))
    ELSE x[1] * (x[3] * 2^(28 + x[2]) + x[4] \div 2^(-x[2]))

\* the high word of |x|: biased exponent and the top 20 fraction bits
HighWord(x) ==
    IF x[1] = 0 THEN 0 ELSE (x[2] + 1075) * 2^20 + (x[3] - 2^24) \div 16

\* the 24-bit significand m of a binary32, carried into the exponent when it
\* reaches 2^24
PackSingle(s, e, m) ==
    IF m = 2^24 THEN <<s, e + 1, 2^24, 0>> ELSE <<s, e, m * 2, 0>>

\* Math.fround(x), the store of x into a Float32Array element: x rounded to
\* 24 significant bits (binary32 normal range)
Fround(x) ==
    IF x[1] = 0 \/ (x[4] = 0 /\ x[3] % 2 = 0) THEN x
    ELSE CASE x[2] + 52 \in -126..126 ->
              PackSingle(x[1], x[2],
                         IF x[3] % 2 = 1 /\ (x[4] # 0 \/ (x[3] \div 2) % 2 = 1)
                         THEN x[3] \div 2 + 1 ELSE x[3] \div 2)

(***************************************************************************)
(* Math.sin.  The engine computes the sine as fdlibm does: the argument is *)
(* reduced to [-pi/4, pi/4] by subtracting a multiple of pi/2 held in      *)
(* several pieces, and a polynomial kernel for the sine or the cosine is   *)
(* evaluated on the remainder.  The coefficients are the library's.        *)
(***************************************************************************)
F64Half == <<1, -53, 2^24, 0>>
F64One == <<1, -52, 2^24, 0>>

SinS1 == <<-1, -55, 22369621, 89478473>>
SinS2 == <<1, -59, 17895697, 17889446>>
SinS3 == <<-1, -65, 27269633, 163668437>>
SinS4 == <<1, -71, 24239669, 129105533>>
SinS5 == <<-1, -78, 28204648, 170630379>>
SinS6 == <<1, -85, 22909861, 181392764>>
CosC1 == <<1, -57, 22369621, 89478476>>
CosC2 == <<-1, -62, 23860929, 113332599>>
CosC3 == <<1, -68, 27269633, 164304272>>
CosC4 == <<-1, -74, 19391736, 10244781>>
CosC5 == <<1, -81, 18803179, 229945796>>
CosC6 == <<-1, -89, 26193563, 243808468>>
InvPio2 == <<1, -53, 21361414, 231327875>>
Pio2_1 == <<1, -52, 26353589, 71303168>>
Pio2_1t == <<1, -86, 17516049, 174220081>>
Pio2_2 == <<1, -86, 17516049, 174063616>>
Pio2_2t == <<1, -121, 20027554, 235106419>>
Pio2_3 == <<1, -121, 20027554, 234881024>>
Pio2_3t == <<1, -156, 28850594, 86002113>>

\* the high words of the multiples 1..32 of pi/2
NPio2Hw == <<
    1073291771, 1074340347, 1074977148, 1075388923, 1075800698, 1076025724,
    1076231611, 1076437499, 1076643386, 1076849274, 1076971356, 1077074300,
    1077177244, 1077280187, 1077383131, 1077486075, 1077589019, 1077691962,
    1077794906, 1077897850, 1077968460, 1078019932, 1078071404, 1078122876,
    1078174348, 1078225820, 1078277292, 1078328763, 1078380235, 1078431707,
    1078483179, 1078534651>>

\* the coefficients of the sine and cosine kernels, lowest degree first
SinCoeffs == <<SinS1, SinS2, SinS3, SinS4, SinS5, SinS6>>

CosCoeffs == <<CosC1, CosC2, CosC3, CosC4, CosC5, CosC6>>

\* c[k] + z * (c[k+1] + z * (... + z * c[Len(c)]))
RECURSIVE Horner(_, _, _)
Horner(c, z, k) ==
    IF k = Len(c) THEN c[k]
    ELSE F64Add(c[k], F64Mul(z, Horner(c, z, k + 1)))

\* the kernel sum for z = x * x, v = z * x, r = S2 + z * (S3 + ...)
SinSum(x, y, iy, z, v, r) ==
    IF iy = 0 THEN F64Add(x, F64Mul(v, F64Add(SinS1, F64Mul(z, r))))
    ELSE F64Sub(x, F64Sub(F64Sub(F64Mul(z, F64Sub(F64Mul(F64Half, y),
                                                   F64Mul(v, r))), y),
                          F64Mul(v, SinS1)))

SinPoly(x, y, iy, z) == SinSum(x, y, iy, z, F64Mul(z, x), Horner(SinCoeffs, z, 2))

\* the sine of x + y for |x| <= pi/4, y the tail of x (iy = 0 when y is 0)
KernelSin(x, y, iy) ==
    IF HighWord(x) < 1044381696 THEN x ELSE SinPoly(x, y, iy, F64Mul(x, x))

\* 1 - (hz - zr) about the cut qx, for hz = z / 2 and zr = z * r - x * y
CosAbout(qx, hz, zr) ==
    F64Sub(F64Sub(F64One, qx), F64Sub(F64Sub(hz, qx), zr))

CosSum(x, hz, zr) ==
    IF HighWord(x) < 1070805811 THEN F64Sub(F64One, F64Sub(hz, zr))
    ELSE IF HighWord(x) > 1072234496 THEN CosAbout(<<1, -54, 18874368, 0>>, hz, zr)
    ELSE CosAbout(<<1, x[2] - 2, (x[3] \div 16) * 16, 0>>, hz, zr)

\* r = z * (C1 + z * (C2 + ...))
CosPoly(x, y, z) ==
    CosSum(x, F64Mul(F64Half, z),
           F64Sub(F64Mul(z, F64Mul(z, Horner(CosCoeffs, z, 1))), F64Mul(x, y)))

\* the cosine of x + y for |x| <= pi/4, y the tail of x
KernelCos(x, y) ==
    IF HighWord(x) < 1044381696 THEN F64One ELSE CosPoly(x, y, F64Mul(x, x))

\* the biased exponent of x
ExpField(x) == HighWord(x) \div 2^20

\* the reduction <<n, y0, y1>> for the remainder r and its correction w:
\* y0 = r - w and the tail y1 = (r - y0) - w
RemSplit(n, r, w, y0) == <<n, y0, F64Sub(F64Sub(r, y0), w)>>

RemPair(n, r, w) == RemSplit(n, r, w, F64Sub(r, w))

\* the remainder r less the next piece of fn * pi/2, with the correction
\* fn * tail - ((r - r1) - w1)
Pio2Next(n, r, fn, tail, w1, r1) ==
    RemPair(n, r1, F64Sub(F64Mul(fn, tail), F64Sub(F64Sub(r, r1), w1)))

Pio2Piece(n, r, fn, tail, w1) == Pio2Next(n, r, fn, tail, w1, F64Sub(r, w1))

\* the third round when the second has lost too many bits
RemThird(j, fn, p, r2) ==
    IF j - ExpField(p[2]) <= 49 THEN p
    ELSE Pio2Piece(p[1], r2, fn, Pio2_3t, F64Mul(fn, Pio2_3))

\* the second round; its remainder is r - fn * pio2_2
RemSecond(j, n, fn, r, w2) ==
    RemThird(j, fn, Pio2Piece(n, r, fn, Pio2_2t, w2), F64Sub(r, w2))

\* the first round y0 = r - w, refined when it has lost too many bits
RemRefine(j, n, fn, r, p) ==
    IF j - ExpField(p[2]) <= 16 THEN p
    ELSE RemSecond(j, n, fn, r, F64Mul(fn, Pio2_2))

RemFirst(ix, n, fn, r, w) ==
    IF n < 32 /\ ix # NPio2Hw[n] THEN RemPair(n, r, w)
    ELSE RemRefine(ix \div 2^20, n, fn, r, RemPair(n, r, w))

RemMultiple(t, ix, n, fn) ==
    RemFirst(ix, n, fn, F64Sub(t, F64Mul(fn, Pio2_1)), F64Mul(fn, Pio2_1t))

RemMedium(t, ix, n) == RemMultiple(t, ix, n, F64Int(n))

\* t - n * pi/2 for the nearest n, t > pi/4: <<n, remainder, its tail>>
RemPio2Abs(t) ==
    CASE HighWord(t) < 1073928572 ->
             IF HighWord(t) # 1073291771
             THEN RemPair(1, F64Sub(t, Pio2_1), Pio2_1t)
             ELSE RemPair(1, F64Sub(F64Sub(t, Pio2_1), Pio2_2), Pio2_2t)
      [] HighWord(t) >= 1073928572 /\ HighWord(t) <= 1094263291 ->
             RemMedium(t, HighWord(t), F64Trunc(F64Add(F64Mul(t, InvPio2), F64Half)))

\* the reduction of x, |x| > pi/4
RemPio2Signed(s, p) == IF s < 0 THEN <<-p[1], F64Neg(p[2]), F64Neg(p[3])>> ELSE p

RemPio2(x) == RemPio2Signed(x[1], RemPio2Abs(<<1, x[2], x[3], x[4]>>))

\* the kernel of the quadrant n of the reduced argument
SinQuadrant(n, k) == IF n % 4 >= 2 THEN F64Neg(k) ELSE k

SinReduced(p) ==
    IF p[1] % 2 = 0 THEN SinQuadrant(p[1], KernelSin(p[2], p[3], 1))
    ELSE SinQuadrant(p[1], KernelCos(p[2], p[3]))

\* Math.sin(x)
MathSin(x) ==
    IF HighWord(x) <= 1072243195 THEN KernelSin(x, F64Zero, 0)
    ELSE SinReduced(RemPio2(x))

(***************************************************************************)
(* Program constants and the number literals of the program.               *)
(***************************************************************************)
TRAIL_LENGTH == 100
VisualRpmKnee == 1000
LaneMeters == 10

\* const strokeLength = 1.0
strokeLength == <<1, -52, 16777216, 0>>

\* const cylinderSpacing = 1.2
cylinderSpacing == <<1, -52, 20132659, 53687091>>

\* Math.PI
MathPI == <<1, -51, 26353589, 71576856>>

\* the literal 0.1 of the visual rpm mapping
VisualRpmGain == <<1, -56, 26843545, 161061274>>

\* the literal 3.6 (km/h in one m/s)
KphPerMps == <<1, -51, 30198988, 214748365>>

(***************************************************************************)
(* Slider values and clock deltas the model draws its inputs from: the     *)
(* time scales 0.0, 1.0 and 2.5, the frame times 0 and 0.1 s.              *)
(***************************************************************************)
RpmChoices == {1000, 8000}
SpeedChoices == {0, 50}
CylinderChoices == {3, 4}
TimeScaleChoices == {F64Zero, F64One, <<1, -51, 20971520, 0>>}
DeltaChoices == {F64Zero, <<1, -56, 26843545, 161061274>>}

(***************************************************************************)
(* rebuildEngine                                                           *)
(***************************************************************************)
\* const startZ = -totalLength / 2, totalLength = (count - 1) * cylinderSpacing
StartZ(count) ==
    F64Div(F64Neg(F64Mul(F64Int(count - 1), cylinderSpacing)), F64Int(2))

\* const currentZ = startZ + i * cylinderSpacing
CurrentZ(count, i) == F64Add(StartZ(count), F64Mul(F64Int(i), cylinderSpacing))

\* (mutant) half a turn spread over the cylinders instead of a full one
PhaseHalfTurn(count, i) == F64Div(F64Mul(F64Int(i), MathPI), F64Int(count))

\* const phase = (i * 2 * Math.PI) / count
Phase(count, i) == F64Div(F64Mul(F64Int(i * 2), MathPI), F64Int(count))

\* pistonGroup.position.set(0, 0, currentZ);
\* pistons.push({ mesh: pistonGroup, phase: phase, baseY: 0 })
NewPiston(count, i) ==
    [ position |-> [x |-> F64Zero, y |-> F64Zero, z |-> CurrentZ(count, i)],
      phase |-> Phase(count, i),
      baseY |-> F64Zero ]

\* (mutant) the buffer sized in points instead of coordinates
NewTrailPositionsShort(currentZ) ==
    [ idx \in 0..(TRAIL_LENGTH - 1) |->
        IF idx % 3 = 2 THEN Fround(currentZ) ELSE Fround(F64Zero) ]

\* new Float32Array(TRAIL_LENGTH * 3), every point set to (0, 0, currentZ)
NewTrailPositions(currentZ) ==
    [ idx \in 0..(TRAIL_LENGTH * 3 - 1) |->
        IF idx % 3 = 2 THEN Fround(currentZ) ELSE Fround(F64Zero) ]

\* (mutant) the initialisation loop left out: the buffer stays zero-filled
NewTrailZeroed(count, i, gen) ==
    [ line |-> <<gen, i>>,
      positions |-> [ idx \in 0..(TRAIL_LENGTH * 3 - 1) |-> F64Zero ],
      pistonIndex |-> i,
      needsUpdate |-> 0 ]

\* trails.push({ line: trailLine, positions: trailPositions, pistonIndex: i });
\* needsUpdate is the number of times the line's position attribute has been
\* marked for upload, none yet for a new line
NewTrail(count, i, gen) ==
    [ line |-> <<gen, i>>,
      positions |-> NewTrailPositions(CurrentZ(count, i)),
      pistonIndex |-> i,
      needsUpdate |-> 0 ]

RebuildPistons(count) == [ i \in 0..(count - 1) |-> NewPiston(count, i) ]

RebuildTrails(count, gen) == [ i \in 0..(count - 1) |-> NewTrail(count, i, gen) ]

TrailLines(ts) == { ts[i].line : i \in DOMAIN ts }

\* (mutant) the old trail lines left in the scene
RebuildSceneLeaky(sc, oldTrails, newTrails) == sc \cup TrailLines(newTrails)

\* scene.remove(t.line) for every old trail, scene.add(trailLine) for every new one
RebuildScene(sc, oldTrails, newTrails) ==
    (sc \ TrailLines(oldTrails)) \cup TrailLines(newTrails)

\* the entry of the history for a handler that left the pistons ps after
\* moving the trails by flow
Sampled(flow, ps) == [ flow |-> flow, heads |-> [ i \in DOMAIN ps |-> ps[i].position ] ]

\* t.line.geometry.dispose() for every old trail
DisposeTrails(dis, oldTrails) == dis \cup TrailLines(oldTrails)

RebuildEngine ==
    /\ disposed' = DisposeTrails(disposed, trails)
    /\ pistons' = RebuildPistons(state'.cylinderCount)
    /\ trails' = RebuildTrails(state'.cylinderCount, lineSeq)
    /\ scene' = RebuildScene(scene, trails, trails')
    /\ lineSeq' = lineSeq + 1
    /\ history' = <<Sampled(F64Zero, pistons')>>

(***************************************************************************)
(* updateState: the handler of all four sliders' input events.             *)
(***************************************************************************)
\* (mutant) rebuild on every input event
NeedsRebuildAlways(newCyl, st) == TRUE

\* (mutant) rebuild only when cylinders are added
NeedsRebuildOnGrowth(newCyl, st) == newCyl > st.cylinderCount

\* if (newCyl !== state.cylinderCount)
NeedsRebuild(newCyl, st) == newCyl # st.cylinderCount

UpdateState(rpm, speed, newCyl, timeScale) ==
    /\ frame >= 1
    /\ NeedsRebuild(newCyl, state) => lineSeq <= MaxRebuilds
    /\ state' = [ cylinderCount |-> newCyl, rpm |-> rpm, speed |-> speed,
                  timeScale |-> timeScale ]
    /\ IF NeedsRebuild(newCyl, state)
       THEN /\ RebuildEngine
            /\ lastHandler' = "rebuildEngine"
       ELSE /\ UNCHANGED <<pistons, trails, scene, lineSeq, disposed, history>>
            /\ lastHandler' = "updateState"
    /\ UNCHANGED <<crankAngle, roadOffsetY, lastDelta, frame, flowSum>>

\* rebuildEngine() throwing at new Float32Array(...) in the pass of cylinder
\* failAt: the old trails are removed and disposed, the cylinders before
\* failAt are complete, piston failAt is pushed and has no trail
RebuildEngineThrows(failAt) ==
    /\ disposed' = DisposeTrails(disposed, trails)
    /\ pistons' = [ i \in 0..failAt |-> NewPiston(state'.cylinderCount, i) ]
    /\ trails' = [ i \in 0..(failAt - 1) |-> NewTrail(state'.cylinderCount, i, lineSeq) ]
    /\ scene' = RebuildScene(scene, trails, trails')
    /\ lineSeq' = lineSeq + 1
    /\ history' = <<Sampled(F64Zero, pistons')>>

\* updateState when the rebuild it starts throws: nothing catches the
\* exception, the handler ends there with all its earlier writes in place
UpdateStateThrows(rpm, speed, newCyl, timeScale, failAt) ==
    /\ frame >= 1
    /\ NeedsRebuild(newCyl, state)
    /\ lineSeq <= MaxRebuilds
    /\ failAt \in 0..(newCyl - 1)
    /\ state' = [ cylinderCount |-> newCyl, rpm |-> rpm, speed |-> speed,
                  timeScale |-> timeScale ]
    /\ RebuildEngineThrows(failAt)
    /\ lastHandler' = "rebuildThrew"
    /\ UNCHANGED <<crankAngle, roadOffsetY, lastDelta, frame, flowSum>>

(***************************************************************************)
(* animate: one frame.                                                     *)
(***************************************************************************)
\* (mutant) the raw rpm, as in src/script.js
VisualRpmRaw(rpm) == F64Int(rpm)

\* let visualRpm = state.rpm; if (visualRpm > 1000) visualRpm = 1000 + (state.rpm - 1000) * 0.1
VisualRpm(rpm) ==
    IF rpm > VisualRpmKnee
    THEN F64Add(F64Int(VisualRpmKnee), F64Mul(F64Int(rpm - VisualRpmKnee), VisualRpmGain))
    ELSE F64Int(rpm)

\* const angularVelocity = (visualRpm * 2 * Math.PI) / 60
AngularVelocity(rpm) ==
    F64Div(F64Mul(F64Mul(VisualRpm(rpm), F64Int(2)), MathPI), F64Int(60))

\* (mutant) the frame time taken unscaled, as in src/script.js
DeltaTimeUnscaled(delta, st) == delta

\* const deltaTime = clock.getDelta() * state.timeScale
DeltaTime(delta, st) == F64Mul(delta, st.timeScale)

\* (mutant) the crank angle kept within one turn
NextCrankAngleWrapped(angle, delta, st) ==
    LET sum == F64Add(angle, F64Mul(AngularVelocity(st.rpm), DeltaTime(delta, st)))
        turn == F64Mul(F64Int(2), MathPI)
    IN  F64Sub(sum, F64Mul(F64Int(F64Trunc(F64Div(sum, turn))), turn))

\* crankAngle += angularVelocity * deltaTime
NextCrankAngle(angle, delta, st) ==
    F64Add(angle, F64Mul(AngularVelocity(st.rpm), DeltaTime(delta, st)))

\* const yOffset = (strokeLength / 2) * Math.sin(crankAngle + p.phase);
\* p.mesh.position.y = p.baseY + yOffset
MovePiston(p, angle) ==
    [ p EXCEPT !.position.y =
        F64Add(p.baseY, F64Mul(F64Div(strokeLength, F64Int(2)),
                               MathSin(F64Add(angle, p.phase)))) ]

\* (mutant) the older points moved towards -Z
EnvironmentSpeedZBackwards(delta, st) ==
    F64Neg(F64Mul(F64Div(F64Int(st.speed), KphPerMps), DeltaTime(delta, st)))

\* const environmentSpeedZ = (state.speed / 3.6) * deltaTime
EnvironmentSpeedZ(delta, st) ==
    F64Mul(F64Div(F64Int(st.speed), KphPerMps), DeltaTime(delta, st))

\* one pass of the loop body at index k
ShiftSlot(positions, k, flow) ==
    [ positions EXCEPT
        ![k * 3] = Fround(positions[(k - 1) * 3]),
        ![k * 3 + 1] = Fround(positions[(k - 1) * 3 + 1]),
        ![k * 3 + 2] = Fround(F64Add(positions[(k - 1) * 3 + 2], flow)) ]

\* The loop body run for k = hi, hi - 1, ..., lo, in that order, each pass on
\* the array the pass before it left.  (The run is cut in two and the first
\* half is evaluated before the second starts, which keeps the evaluation
\* shallow; the order of the passes is the loop's.)
RECURSIVE ShiftRun(_, _, _, _)
ShiftRun(positions, hi, lo, flow) ==
    IF hi < lo THEN positions
    ELSE IF hi = lo THEN ShiftSlot(positions, hi, flow)
    ELSE LET mid == (hi + lo) \div 2
             upper == ShiftRun(positions, hi, mid + 1, flow)
         IN  IF upper = upper THEN ShiftRun(upper, mid, lo, flow) ELSE upper

\* (mutant) the loop run upwards, k = 1, 2, ..., TRAIL_LENGTH - 1
RECURSIVE ShiftRunUp(_, _, _, _)
ShiftRunUp(positions, lo, hi, flow) ==
    IF hi < lo THEN positions
    ELSE IF hi = lo THEN ShiftSlot(positions, lo, flow)
    ELSE LET mid == (hi + lo) \div 2
             lower == ShiftRunUp(positions, lo, mid, flow)
         IN  IF lower = lower THEN ShiftRunUp(lower, mid + 1, hi, flow) ELSE lower

ShiftLoopUpwards(positions, flow) == ShiftRunUp(positions, 1, TRAIL_LENGTH - 1, flow)

\* for (let k = TRAIL_LENGTH - 1; k > 0; k--) { ... }
ShiftLoop(positions, flow) == ShiftRun(positions, TRAIL_LENGTH - 1, 1, flow)

\* positions[0] = wx; positions[1] = wy; positions[2] = wz
SetHead(positions, pos) ==
    [ positions EXCEPT ![0] = Fround(pos.x), ![1] = Fround(pos.y), ![2] = Fround(pos.z) ]

\* (mutant) every trail fed from the first piston
AdvanceTrailFromFirst(trail, ps, flow) ==
    [ trail EXCEPT !.positions =
        SetHead(ShiftLoop(trail.positions, flow), ps[0].position),
                   !.needsUpdate = @ + 1 ]

\* the body of trails.forEach((trail, idx) => { ... }), ending with
\* trail.line.geometry.attributes.position.needsUpdate = true
AdvanceTrail(trail, ps, flow) ==
    [ trail EXCEPT !.positions =
        SetHead(ShiftLoop(trail.positions, flow),
                ps[trail.pistonIndex].position),
                   !.needsUpdate = @ + 1 ]

\* (mutant) the road offset kept in meters, as in src/script.js
TextureOffsetMeters(delta, st) ==
    F64Mul(F64Div(F64Int(st.speed), KphPerMps), DeltaTime(delta, st))

\* const speedMs = state.speed / 3.6;
\* const textureOffsetDelta = (speedMs * deltaTime) / 10
TextureOffsetDelta(delta, st) ==
    F64Div(F64Mul(F64Div(F64Int(st.speed), KphPerMps), DeltaTime(delta, st)),
           F64Int(LaneMeters))

Animate(delta) ==
    /\ frame < MaxFrames
    /\ lastDelta' = delta
    /\ crankAngle' = NextCrankAngle(crankAngle, delta, state)
    /\ pistons' = [ i \in DOMAIN pistons |-> MovePiston(pistons[i], crankAngle') ]
    /\ trails' = [ i \in DOMAIN trails |->
                     AdvanceTrail(trails[i], pistons', EnvironmentSpeedZ(delta, state)) ]
    /\ roadOffsetY' = F64Add(roadOffsetY, TextureOffsetDelta(delta, state))
    /\ flowSum' = F64Add(flowSum, EnvironmentSpeedZ(delta, state))
    /\ history' = <<Sampled(EnvironmentSpeedZ(delta, state), pistons')>> \o history
    /\ frame' = frame + 1
    /\ lastHandler' = "animate"
    /\ UNCHANGED <<state, scene, lineSeq, disposed>>

(***************************************************************************)
(* The page after the script has run up to the first call of animate():    *)
(* the state literal, the initial rebuildEngine(), crankAngle = 0.         *)
(***************************************************************************)
InitialState ==
    [ cylinderCount |-> 4, rpm |-> 1000, speed |-> 50, timeScale |-> F64One ]

Init ==
    /\ state = InitialState
    /\ pistons = RebuildPistons(InitialState.cylinderCount)
    /\ trails = RebuildTrails(InitialState.cylinderCount, 0)
    /\ scene = TrailLines(trails)
    /\ lineSeq = 1
    /\ disposed = {}
    /\ history = <<Sampled(F64Zero, pistons)>>
    /\ crankAngle = F64Zero
    /\ roadOffsetY = F64Zero
    /\ lastDelta = F64Zero
    /\ frame = 0
    /\ flowSum = F64Zero
    /\ lastHandler = "initialBuild"

Frame == \E delta \in DeltaChoices : Animate(delta)

\* rpmInput, speedInput, cylInput, timeScaleInput: an input event is one
\* slider moved; the handler reads all four, the other three as they stand
RpmInput ==
    \E rpm \in RpmChoices :
        UpdateState(rpm, state.speed, state.cylinderCount, state.timeScale)

SpeedInput ==
    \E speed \in SpeedChoices :
        UpdateState(state.rpm, speed, state.cylinderCount, state.timeScale)

CylInput ==
    \E newCyl \in CylinderChoices :
        UpdateState(state.rpm, state.speed, newCyl, state.timeScale)

TimeScaleInput ==
    \E timeScale \in TimeScaleChoices :
        UpdateState(state.rpm, state.speed, state.cylinderCount, timeScale)

Next == Frame \/ RpmInput \/ SpeedInput \/ CylInput \/ TimeScaleInput

Spec == Init /\ [][Next]_vars

(***************************************************************************)
(* The rpm slider over its whole range in steps of 500 (time scale, speed  *)
(* and cylinder count as loaded), for the rpm mapping.                     *)
(***************************************************************************)
RpmRange == { 500 * k : k \in 0..16 }

RpmSweep ==
    \E rpm \in RpmRange :
        UpdateState(rpm, state.speed, state.cylinderCount, state.timeScale)

NextRpm == Frame \/ RpmSweep

SpecRpm == Init /\ [][NextRpm]_vars

(***************************************************************************)
(* The cylinder slider over its whole range 1..12 (rpm, speed and time     *)
(* scale as loaded).                                                       *)
(***************************************************************************)
CylinderRange == 1..12

CylSweep ==
    \E newCyl \in CylinderRange :
        UpdateState(state.rpm, state.speed, newCyl, state.timeScale)

NextCyl == Frame \/ CylSweep

SpecCyl == Init /\ [][NextCyl]_vars

(***************************************************************************)
(* The page when an allocation of a trail buffer can fail: a cylinder      *)
(* slider event whose rebuild throws a RangeError in any of its passes.    *)
(***************************************************************************)
CylInputThrows ==
    \E newCyl \in CylinderChoices : \E failAt \in 0..(newCyl - 1) :
        UpdateStateThrows(state.rpm, state.speed, newCyl, state.timeScale, failAt)

NextThrows == Next \/ CylInputThrows

SpecThrows == Init /\ [][NextThrows]_vars

(***************************************************************************)
(* Claims.  The formulas of a claim are evaluated in the program's         *)
(* numbers: an expression of a claim is the binary64 value of that         *)
(* expression.                                                             *)
(***************************************************************************)
\* point j of a trail buffer: its x, y, z coordinates
Point(positions, j) == <<positions[j * 3], positions[j * 3 + 1], positions[j * 3 + 2]>>

\* x < y
F64Less(x, y) ==
    IF x[1] # y[1] THEN x[1] < y[1]
    ELSE IF x[1] = 0 THEN FALSE
    ELSE IF x[1] = 1 THEN MagLess(x, y)
    ELSE MagLess(y, x)

\* x <= y
F64Leq(x, y) == x = y \/ F64Less(x, y)

\* |x|
F64Abs(x) == <<x[1] * x[1], x[2], x[3], x[4]>>

\* the resting Z of cylinder i of c, -(c - 1) * 1.2 / 2 + i * 1.2
ClaimRestZ(c, i) ==
    F64Add(F64Div(F64Mul(F64Int(-(c - 1)), cylinderSpacing), F64Int(2)),
           F64Mul(F64Int(i), cylinderSpacing))

\* the phase of piston i of c, 2 * pi * i / c
ClaimPhase(c, i) ==
    F64Div(F64Mul(F64Mul(F64Int(2), MathPI), F64Int(i)), F64Int(c))

\* the head of cylinder i under the crank angle: (strokeLength/2) * sin(angle + phase_i)
ClaimHeadY(angle, c, i) ==
    F64Mul(F64Div(strokeLength, F64Int(2)), MathSin(F64Add(angle, ClaimPhase(c, i))))

\* C1: every trail history holds exactly TRAIL_LENGTH = 100 points, that is
\* 300 coordinates at the indices 0..299, in every reachable state (after any
\* interleaving of frames, parameter changes and rebuilds).
C1_TrailLength ==
    /\ TRAIL_LENGTH = 100
    /\ \A i \in DOMAIN trails :
         /\ DOMAIN trails[i].positions = 0..299
         /\ \A j \in 0..99 : Len(Point(trails[i].positions, j)) = 3

C1_Witness ==
    /\ lastHandler = "animate"
    /\ frame = 2
    /\ lineSeq = 2
    /\ state.cylinderCount = 3

\* C2 (as claimed): after a frame, slot 0 of trail i equals exactly the head
\* point (0, (strokeLength/2) * sin(crankAngle + phase_i), restZ_i), with the
\* crank angle the frame has just produced.
C2_HeadExact ==
    lastHandler = "animate" =>
        \A i \in DOMAIN trails :
            Point(trails[i].positions, 0) =
                << F64Zero,
                   ClaimHeadY(crankAngle, state.cylinderCount, i),
                   ClaimRestZ(state.cylinderCount, i) >>

\* C2 (amended): after a frame, slot 0 of trail i equals the head point of
\* that frame narrowed to single precision, coordinate by coordinate: the
\* head is piston i's position under the crank angle the frame has just
\* produced, without the flow increment.
C2_HeadRounded ==
    lastHandler = "animate" =>
        \A i \in DOMAIN trails :
            /\ Point(trails[i].positions, 0) =
                << Fround(F64Zero),
                   Fround(ClaimHeadY(crankAngle, state.cylinderCount, i)),
                   Fround(ClaimRestZ(state.cylinderCount, i)) >>
            /\ Point(trails[i].positions, 0) =
                << Fround(pistons[i].position.x), Fround(pistons[i].position.y),
                   Fround(pistons[i].position.z) >>

C2_Witness ==
    /\ lastHandler = "animate"
    /\ frame = 2
    /\ state.cylinderCount = 3
    /\ \E i \in DOMAIN trails :
         /\ trails[i].positions[1] # F64Zero
         /\ trails[i].positions[1] # pistons[i].position.y
         /\ trails[i].positions[4] # trails[i].positions[1]

\* the flow distance the frame of this step applied to the trails
StepFlow == history'[1].flow

\* C3 (as claimed): a frame moves every trail by a simultaneous shift: new
\* slot k has the X and Y of old slot k - 1 and Z equal to old slot k - 1's Z
\* plus the flow distance.
C3_ShiftExact ==
    [][ frame' = frame + 1 =>
          \A i \in DOMAIN trails : \A k \in 1..(TRAIL_LENGTH - 1) :
              LET old == Point(trails[i].positions, k - 1)
                  new == Point(trails'[i].positions, k)
              IN  new = <<old[1], old[2], F64Add(old[3], StepFlow)>> ]_vars

\* C3 (amended): a frame moves every trail by a simultaneous shift: new slot k
\* has the X and Y of old slot k - 1 and Z equal to old slot k - 1's Z plus the
\* flow distance, narrowed to single precision; the carried Z is never less
\* than the Z it was copied from; no slot is read after it has been written.
C3_ShiftRounded ==
    [][ frame' = frame + 1 =>
          \A i \in DOMAIN trails : \A k \in 1..(TRAIL_LENGTH - 1) :
              LET old == Point(trails[i].positions, k - 1)
                  new == Point(trails'[i].positions, k)
              IN  /\ new = <<old[1], old[2], Fround(F64Add(old[3], StepFlow))>>
                  /\ F64Leq(old[3], new[3]) ]_vars

C3_Witness ==
    /\ lastHandler = "animate"
    /\ frame = 2
    /\ F64Less(F64Int(2), flowSum)
    /\ \E i \in DOMAIN trails :
         /\ F64Less(trails[i].positions[2], trails[i].positions[5])
         /\ F64Less(trails[i].positions[5], trails[i].positions[8])
         /\ trails[i].positions[8] # F64Add(trails[i].positions[5], history[1].flow)
         /\ trails[i].positions[4] # trails[i].positions[1]

\* C4 (as claimed): right after a rebuild to c cylinders there are exactly c
\* pistons and c trails, trail i is bound to piston i, and all samples of
\* trail i equal (0, 0, restZ_i) exactly.
C4_RebuildExact ==
    lastHandler = "rebuildEngine" =>
        LET c == state.cylinderCount
        IN  /\ DOMAIN pistons = 0..(c - 1)
            /\ DOMAIN trails = 0..(c - 1)
            /\ \A i \in DOMAIN trails :
                 /\ trails[i].pistonIndex = i
                 /\ LET rest == <<F64Zero, F64Zero, ClaimRestZ(c, i)>>
                    IN  \A j \in 0..(TRAIL_LENGTH - 1) :
                            Point(trails[i].positions, j) = rest

\* C4 (amended): right after a rebuild to c cylinders there are exactly c
\* pistons and c trails, trail i is bound to piston i, piston i rests at
\* (0, 0, restZ_i), and all samples of trail i equal (0, 0, restZ_i narrowed
\* to single precision): nothing of the earlier trails is left.
C4_RebuildRounded ==
    lastHandler = "rebuildEngine" =>
        LET c == state.cylinderCount
        IN  /\ DOMAIN pistons = 0..(c - 1)
            /\ DOMAIN trails = 0..(c - 1)
            /\ \A i \in DOMAIN trails :
                 /\ trails[i].pistonIndex = i
                 /\ pistons[i].position =
                      [x |-> F64Zero, y |-> F64Zero, z |-> ClaimRestZ(c, i)]
                 /\ LET rest == <<F64Zero, F64Zero, Fround(ClaimRestZ(c, i))>>
                    IN  \A j \in 0..(TRAIL_LENGTH - 1) :
                            Point(trails[i].positions, j) = rest

C4_Witness ==
    /\ lastHandler = "rebuildEngine"
    /\ state.cylinderCount = 7
    /\ frame = 2
    /\ lineSeq = 2
    /\ crankAngle # F64Zero
    /\ flowSum # F64Zero
    /\ trails[1].positions[2] # pistons[1].position.z

\* C5: a frame never meets a partially rebuilt engine: in every state the
\* pistons and the trails are both indexed 0..cylinderCount-1 and every
\* trail's pistonIndex is the index of an existing piston.
C5_NoPartialRebuild ==
    /\ DOMAIN pistons = 0..(state.cylinderCount - 1)
    /\ DOMAIN trails = 0..(state.cylinderCount - 1)
    /\ \A i \in DOMAIN trails : trails[i].pistonIndex \in DOMAIN pistons

C5_Witness ==
    /\ lastHandler = "animate"
    /\ lineSeq = 2
    /\ state.cylinderCount = 3
    /\ DOMAIN trails = 0..2
    /\ frame = 2

\* the visual rpm as claimed: rpm up to 1000 unchanged, 1000 + (rpm - 1000) * 0.1 above
ClaimVisualRpm(rpm) ==
    IF rpm <= 1000 THEN F64Int(rpm)
    ELSE F64Add(F64Int(1000), F64Mul(F64Int(rpm - 1000), VisualRpmGain))

\* the angular velocity as claimed: visualRpm * 2 * pi / 60
ClaimAngularVelocity(visualRpm) ==
    F64Div(F64Mul(F64Mul(visualRpm, F64Int(2)), MathPI), F64Int(60))

\* C6: a frame advances the crank angle by visualRpm * 2 * pi / 60 times the
\* scaled frame time, where visualRpm = rpm for rpm in 0..1000 and
\* 1000 + (rpm - 1000) * 0.1 for rpm in 1001..8000 (1700 at rpm = 8000).
C6_VisualRpm ==
    [][ frame' = frame + 1 =>
          /\ state.rpm \in 0..8000
          /\ crankAngle' =
               F64Add(crankAngle,
                      F64Mul(ClaimAngularVelocity(ClaimVisualRpm(state.rpm)),
                             F64Mul(lastDelta', state.timeScale)))
          /\ state.rpm = 8000 =>
               crankAngle' =
                 F64Add(crankAngle,
                        F64Mul(ClaimAngularVelocity(F64Int(1700)),
                               F64Mul(lastDelta', state.timeScale)))
      ]_vars

C6_Witness ==
    /\ lastHandler = "animate"
    /\ frame = 2
    /\ state.rpm = 8000
    /\ lastDelta # F64Zero
    /\ F64Less(F64Int(28), crankAngle)
    /\ F64Less(crankAngle, F64Int(29))

\* C7: the phases of the c pistons are exactly 2 * pi * i / c for i = 0..c-1
\* in piston order: 0 for piston 0, strictly increasing, all below a full turn.
C7_Phases ==
    LET c == state.cylinderCount
    IN  /\ c >= 1
        /\ DOMAIN pistons = 0..(c - 1)
        /\ \A i \in 0..(c - 1) : pistons[i].phase = ClaimPhase(c, i)
        /\ pistons[0].phase = F64Zero
        /\ \A i \in 0..(c - 2) : F64Less(pistons[i].phase, pistons[i + 1].phase)
        /\ \A i \in 0..(c - 1) :
             F64Less(pistons[i].phase, F64Mul(F64Int(2), MathPI))

C7_Witness ==
    /\ lastHandler = "rebuildEngine"
    /\ state.cylinderCount = 11
    /\ F64Less(F64Int(2), pistons[4].phase)
    /\ F64Less(pistons[4].phase, F64Int(3))
    /\ F64Less(F64Int(5), pistons[10].phase)

\* C8: an input event that leaves the cylinder count as it is changes neither
\* the pistons (phases included), nor any trail, nor the trail lines in the
\* scene, nor the crank angle, nor the road offset; an input event rebuilds
\* (new trail lines replace the old ones) if and only if the count differs.
C8_RebuildOnlyOnCountChange ==
    [][ frame' = frame =>
          /\ state'.cylinderCount = state.cylinderCount =>
               UNCHANGED <<pistons, trails, scene, crankAngle, roadOffsetY, lineSeq>>
          /\ state'.cylinderCount # state.cylinderCount =>
               /\ lineSeq' = lineSeq + 1
               /\ TrailLines(trails') \cap TrailLines(trails) = {}
               /\ UNCHANGED <<crankAngle, roadOffsetY>>
      ]_vars

C8_Witness ==
    /\ lastHandler = "updateState"
    /\ frame = 2
    /\ state.rpm = 8000
    /\ state.speed = 0
    /\ state.timeScale = F64Zero
    /\ trails[0].positions[5] # trails[0].positions[2]
    /\ crankAngle # F64Zero

\* C9: the crank angle starts at 0, never decreases, and is changed by frames
\* only: input events, rebuilds included, leave it exactly as it was.
C9_CrankMonotone ==
    /\ crankAngle = F64Zero
    /\ [][ /\ F64Leq(crankAngle, crankAngle')
           /\ frame' = frame => crankAngle' = crankAngle ]_vars

C9_Witness ==
    /\ lastHandler = "rebuildEngine"
    /\ frame = 2
    /\ F64Less(F64Int(20), crankAngle)

\* the flow distance of the frame of this step as claimed:
\* (speedKph / 3.6) * deltaTime * timeScale
ClaimFlow ==
    F64Mul(F64Mul(F64Div(F64Int(state.speed), KphPerMps), lastDelta'), state.timeScale)

\* the flow distance of the frame of this step with the frame time scaled
\* first: (speedKph / 3.6) * (deltaTime * timeScale)
ClaimFlowScaled ==
    F64Mul(F64Div(F64Int(state.speed), KphPerMps), F64Mul(lastDelta', state.timeScale))

\* 2^-53, the largest relative error of one rounding
UnitRoundoff == <<1, -105, 16777216, 0>>

\* a and b differ by no more than n roundings of b
WithinRoundings(a, b, n) ==
    F64Leq(F64Abs(F64Sub(a, b)), F64Mul(F64Mul(F64Int(n), UnitRoundoff), b))

\* C10 (as claimed): each frame applies the flow distance (speedKph / 3.6) *
\* deltaTime * timeScale to the trails and adds exactly a tenth of it to the
\* road offset, so the road offset times 10 always equals the sum of the flow
\* distances.
C10_RoadOffsetExact ==
    /\ [](F64Mul(roadOffsetY, F64Int(10)) = flowSum)
    /\ [][ frame' = frame + 1 =>
             /\ StepFlow = ClaimFlow
             /\ roadOffsetY' = F64Add(roadOffsetY, F64Div(StepFlow, F64Int(10))) ]_vars

\* C10 (amended): each frame applies the flow distance (speedKph / 3.6) *
\* (deltaTime * timeScale) to the trails and adds exactly a tenth of it (the
\* number flow / 10) to the road offset; after n frames the road offset times
\* 10 equals the sum of the flow distances up to floating-point rounding, a
\* relative difference of at most (2 * n + 3) * 2^-53.
C10_RoadOffsetRounded ==
    /\ [](WithinRoundings(F64Mul(roadOffsetY, F64Int(10)), flowSum, 2 * frame + 3))
    /\ [][ frame' = frame + 1 =>
             /\ StepFlow = ClaimFlowScaled
             /\ roadOffsetY' = F64Add(roadOffsetY, F64Div(StepFlow, F64Int(10))) ]_vars

C10_Witness ==
    /\ lastHandler = "animate"
    /\ frame = 2
    /\ F64Less(F64Int(2), flowSum)
    /\ F64Mul(roadOffsetY, F64Int(10)) # flowSum
    /\ history[1].flow #
         F64Mul(F64Mul(F64Div(F64Int(state.speed), KphPerMps), lastDelta), state.timeScale)

\* C11: every rebuild releases each trail that existed before it: its line
\* leaves the scene and its geometry is disposed; in every reachable state the
\* trail lines in the scene are exactly the lines of the current trails, one
\* per cylinder, none of them disposed, and no line of an earlier build is left.
C11_TrailsReleased ==
    /\ [](/\ scene = TrailLines(trails)
          /\ Cardinality(scene) = state.cylinderCount
          /\ scene \cap disposed = {}
          /\ \A l \in scene : l[1] = lineSeq - 1)
    /\ [][ lineSeq' # lineSeq =>
             /\ TrailLines(trails) \subseteq disposed'
             /\ TrailLines(trails) \cap scene' = {}
             /\ Cardinality(disposed') = Cardinality(disposed) + Cardinality(TrailLines(trails))
         ]_vars

C11_Witness ==
    /\ lastHandler = "animate"
    /\ frame = 2
    /\ state.cylinderCount = 3
    /\ scene = {<<1, 0>>, <<1, 1>>, <<1, 2>>}
    /\ disposed = {<<0, 0>>, <<0, 1>>, <<0, 2>>, <<0, 3>>}

\* C12: a rebuild that fails part-way is abandoned and leaves the previous
\* engine in place: the pistons, the trails and the trail lines in the scene
\* are those from before the event, none of them disposed, and the engine is
\* never left with fewer pistons or trails than cylinderCount.
C12_FailedRebuildKeepsEngine ==
    [][ lastHandler' = "rebuildThrew" /\ frame' = frame =>
          /\ pistons' = pistons
          /\ trails' = trails
          /\ scene' = scene
          /\ TrailLines(trails') \cap disposed' = {}
          /\ Cardinality(DOMAIN pistons') >= state'.cylinderCount
          /\ Cardinality(DOMAIN trails') >= state'.cylinderCount
      ]_vars

\* z after the flow distances of the k newest frames, oldest of them first
RECURSIVE SumOfFlows(_, _)
SumOfFlows(z, k) == IF k = 0 THEN z ELSE SumOfFlows(F64Add(z, history[k].flow), k - 1)

\* the same, each sum narrowed to single precision as it is stored
RECURSIVE StoredFlows(_, _)
StoredFlows(z, k) ==
    IF k = 0 THEN z ELSE StoredFlows(Fround(F64Add(z, history[k].flow)), k - 1)

\* C13 (as claimed): every trail is ordered by age in Z: slot 0's Z equals the
\* cylinder's resting Z, Z never decreases from slot k to slot k + 1, and slot
\* k, up to the number of frames since the last build, holds the head sampled
\* k frames ago with its Z increased by the sum of the flow distances since.
C13_AgeOrderExact ==
    \A i \in DOMAIN trails :
        /\ trails[i].positions[2] = ClaimRestZ(state.cylinderCount, i)
        /\ \A k \in 0..(TRAIL_LENGTH - 2) :
             F64Leq(trails[i].positions[k * 3 + 2], trails[i].positions[k * 3 + 5])
        /\ \A k \in 0..(Len(history) - 1) :
             LET head == history[k + 1].heads[i]
             IN  Point(trails[i].positions, k) =
                     <<head.x, head.y, SumOfFlows(head.z, k)>>

\* C13 (amended): every trail is ordered by age in Z: slot 0's Z equals the
\* cylinder's resting Z narrowed to single precision, Z never decreases from
\* slot k to slot k + 1, and slot k, up to the number of frames since the last
\* build, holds the head sampled k frames ago narrowed to single precision,
\* its Z increased by the flow distance of each frame since, one after the
\* other, the result narrowed to single precision each time.
C13_AgeOrderRounded ==
    \A i \in DOMAIN trails :
        /\ trails[i].positions[2] = Fround(ClaimRestZ(state.cylinderCount, i))
        /\ \A k \in 0..(TRAIL_LENGTH - 2) :
             F64Leq(trails[i].positions[k * 3 + 2], trails[i].positions[k * 3 + 5])
        /\ \A k \in 0..(Len(history) - 1) :
             LET head == history[k + 1].heads[i]
             IN  Point(trails[i].positions, k) =
                     <<Fround(head.x), Fround(head.y), StoredFlows(Fround(head.z), k)>>

C13_Witness ==
    /\ lastHandler = "animate"
    /\ frame = 2
    /\ Len(history) = 3
    /\ history[1].flow # F64Zero
    /\ history[2].flow = history[1].flow
    /\ F64Less(trails[0].positions[2], trails[0].positions[5])
    /\ F64Less(trails[0].positions[5], trails[0].positions[8])
    /\ trails[0].positions[8] # F64Add(trails[0].positions[2], flowSum)
    /\ trails[1].positions[4] # trails[1].positions[1]

\* C14 (as claimed): a frame with timeScale = 0 freezes the simulation: the
\* crank angle, every piston's axial offset and the road offset are unchanged
\* and the flow distance is 0, while every trail is shifted by one slot with
\* no Z increment, re-seeded with the unchanged piston position and marked
\* for upload.
C14_FreezeKeepsPistons ==
    [][ frame' = frame + 1 /\ state.timeScale = F64Zero =>
          /\ crankAngle' = crankAngle
          /\ \A i \in DOMAIN pistons : pistons'[i].position.y = pistons[i].position.y
          /\ roadOffsetY' = roadOffsetY
          /\ StepFlow = F64Zero
          /\ \A i \in DOMAIN trails :
               LET seed == pistons[trails[i].pistonIndex].position
               IN  /\ \A k \in 1..(TRAIL_LENGTH - 1) :
                        Point(trails'[i].positions, k) = Point(trails[i].positions, k - 1)
                   /\ Point(trails'[i].positions, 0) =
                        <<Fround(seed.x), Fround(seed.y), Fround(seed.z)>>
                   /\ trails'[i].needsUpdate = trails[i].needsUpdate + 1
      ]_vars

\* C14 (amended): a frame with timeScale = 0 leaves the crank angle and the
\* road offset unchanged and its flow distance is 0; every piston's axial
\* offset is recomputed from the unchanged crank angle, which leaves it
\* unchanged when a frame has run since the last build and otherwise moves it
\* from rest to (strokeLength/2) * sin(crankAngle + phase); every trail is
\* shifted by one slot with no Z increment, re-seeded with that piston
\* position and marked for upload.
C14_FreezeRecomputesPistons ==
    [][ frame' = frame + 1 /\ state.timeScale = F64Zero =>
          /\ crankAngle' = crankAngle
          /\ \A i \in DOMAIN pistons :
               pistons'[i].position.y = ClaimHeadY(crankAngle, state.cylinderCount, i)
          /\ Len(history) > 1 => pistons' = pistons
          /\ roadOffsetY' = roadOffsetY
          /\ StepFlow = F64Zero
          /\ \A i \in DOMAIN trails :
               LET seed == pistons'[trails[i].pistonIndex].position
               IN  /\ \A k \in 1..(TRAIL_LENGTH - 1) :
                        Point(trails'[i].positions, k) = Point(trails[i].positions, k - 1)
                   /\ Point(trails'[i].positions, 0) =
                        <<Fround(seed.x), Fround(seed.y), Fround(seed.z)>>
                   /\ trails'[i].needsUpdate = trails[i].needsUpdate + 1
      ]_vars

C14_Witness ==
    /\ lastHandler = "animate"
    /\ frame = 2
    /\ state.timeScale = F64Zero
    /\ state.speed = 50
    /\ state.rpm = 1000
    /\ lastDelta # F64Zero
    /\ F64Less(F64Int(10), crankAngle)
    /\ F64Less(F64Int(1), flowSum)
    /\ Len(history) = 3
    /\ trails[0].needsUpdate = 2
    /\ trails[1].positions[1] # F64Zero
    /\ Point(trails[1].positions, 1) = Point(trails[1].positions, 0)

====
